---------------------------- MODULE Spec2Model ----------------------------
(***************************************************************************)
(* A model of the HC-SR04 ultrasonic range sensor driver (src/hcsr04.py). *)
(*                                                                         *)
(* The driver is single threaded.  The constructor and update_air_temp    *)
(* are one step each; a distance query is modelled statement by statement *)
(* (pc names the source line about to run) so that the level of the       *)
(* trigger line between the platform calls is part of the state.          *)
(*                                                                         *)
(* Python floats are modelled as fixed-point numbers: sound_speed is held *)
(* in units of 1/FloatScale mm/us, and a float result of a distance query *)
(* is the exact fraction num/den.  Temperatures are whole degrees Celsius.*)
(***************************************************************************)
EXTENDS Integers, Sequences, FiniteSets

VARIABLES
    pc,                 \* position of the only thread of control
    max_working_temp,   \* self.max_working_temp
    min_working_temp,   \* self.min_working_temp
    air_temperature,    \* self.air_temperature
    sound_speed,        \* self.sound_speed, in 1/FloatScale mm/us
    echo_timeout_us,    \* self.echo_timeout_us
    trigger,            \* self.trigger: the pin's mode and driven level
    echo,               \* self.echo: the pin's mode
    method,             \* the distance method whose call is in progress
    pulse_time,         \* local pulse_time of _send_pulse_and_wait
    echo_wait,          \* what the platform's time_pulse_us did in this query
    result,             \* the last finished call and what it returned or raised
    io,                 \* platform calls made by the current / last call
    queries,            \* number of distance queries started
    pulses              \* number of time_pulse_us calls made

vars == <<pc, max_working_temp, min_working_temp, air_temperature, sound_speed,
          echo_timeout_us, trigger, echo, method, pulse_time, echo_wait, result,
          io, queries, pulses>>

---------------------------------------------------------------------------
(* Bounds of the model *)

\* temperatures tried reach this many degrees to either side of each limit
TempMargin == 1
\* longest echo pulse the platform reports, in microseconds
MaxPulse == 12
\* number of distance queries in one behaviour
MaxQueries == 3

---------------------------------------------------------------------------
(* Program constants *)

MaxWorkingTemp == 70
MinWorkingTemp == -15
DefaultAirTemp == 20
DefaultEchoTimeout == 500 * 2 * 30
StabilizeUs == 5
PulseUs == 10

\* fixed-point unit of a float: 20.05 and the square root carry two decimals each
FloatScale == 100 * 100

Unset == "unset"
NoError == "none"
TemperatureOutOfRange == "Exception('temperature out of range')"
OutOfRange == "Exception('out of range')"
ETIMEDOUT == "OSError(ETIMEDOUT)"

\* time_pulse_us: -2 is a timeout waiting for the pulse to start, -1 a timeout
\* waiting for it to end; ports that predate the sentinels raise OSError instead
TimeoutSentinels == {-2, -1}

InputTemps ==
    ((MinWorkingTemp - TempMargin) .. (MinWorkingTemp + TempMargin))
    \cup {DefaultAirTemp}
    \cup ((MaxWorkingTemp - TempMargin) .. (MaxWorkingTemp + TempMargin))

PulseTimes == 0 .. MaxPulse

Methods == {"distance_mm", "distance_cm", "distance_in"}

---------------------------------------------------------------------------
(* Pure functions *)

RECURSIVE SqrtSearch(_, _, _)
\* largest r in lo..hi with r*r <= n, given lo*lo <= n < (hi+1)*(hi+1)
SqrtSearch(n, lo, hi) ==
    IF lo >= hi THEN lo
    ELSE LET mid == (lo + hi + 1) \div 2
         IN  IF mid * mid <= n THEN SqrtSearch(n, mid, hi)
                               ELSE SqrtSearch(n, lo, mid - 1)

\* math.sqrt of x/100, to two decimals
sqrt(x100) == SqrtSearch(x100 * 100, 0, x100)

\* _get_sound_speed: 20.05 * sqrt(T + 273.15), then / 1000
get_sound_speed(temperature) ==
    LET ss == 2005 * sqrt(100 * temperature + 27315)
    IN  ss \div 1000

\* the range test of _check_air_temp
check_air_temp(lo, hi, temperature) ==
    IF lo > temperature \/ hi < temperature
        THEN [raised |-> TRUE, value |-> temperature]
        ELSE [raised |-> FALSE, value |-> temperature]

\* distance_mm: int((sound_speed * pulse_time) // 2)
mm_round_nearest(ss, p) == (ss * p + FloatScale) \div (2 * FloatScale)
mm_of(ss, p) == (ss * p) \div (2 * FloatScale)

\* distance_cm: (sound_speed * pulse_time) / 20
cm_of(ss, p) == [num |-> ss * p, den |-> 20 * FloatScale]

\* distance_in: (sound_speed * pulse_time) / 50.8
in_of(ss, p) == [num |-> ss * p * 10, den |-> 508 * FloatScale]

convert(m, ss, p) ==
    CASE m = "distance_mm" -> mm_of(ss, p)
      [] m = "distance_cm" -> cm_of(ss, p)
      [] m = "distance_in" -> in_of(ss, p)

---------------------------------------------------------------------------
(* Platform calls, as the io log records them *)

PinCall(pin, mode) == <<"Pin", pin, mode>>
ValueCall(level) == <<"trigger.value", level>>
SleepCall(us) == <<"sleep_us", us>>
TimePulseCall(level, timeout) == <<"time_pulse_us", "echo", level, timeout>>

---------------------------------------------------------------------------
(* State *)

Init ==
    /\ pc = "new"
    /\ max_working_temp = Unset
    /\ min_working_temp = Unset
    /\ air_temperature = Unset
    /\ sound_speed = Unset
    /\ echo_timeout_us = Unset
    /\ trigger = [mode |-> Unset, value |-> 0]
    /\ echo = [mode |-> Unset]
    /\ method = Unset
    /\ pulse_time = Unset
    /\ echo_wait = [kind |-> "none"]
    /\ result = [op |-> Unset, err |-> NoError]
    /\ io = <<>>
    /\ queries = 0
    /\ pulses = 0

---------------------------------------------------------------------------
(* HCSR04.__init__ *)

\* the constructor with the pins set up before the temperature is checked
HCSR04_pins_first(timeout, air_temp) ==
    /\ pc = "new"
    /\ io' = <<PinCall("trigger", "OUT"), ValueCall(0), PinCall("echo", "IN")>>
    /\ trigger' = [mode |-> "OUT", value |-> 0]
    /\ echo' = [mode |-> "IN"]
    /\ IF check_air_temp(MinWorkingTemp, MaxWorkingTemp, air_temp).raised
          THEN /\ pc' = "dead"
               /\ result' = [op |-> "__init__", arg |-> air_temp,
                             err |-> TemperatureOutOfRange]
               /\ UNCHANGED <<max_working_temp, min_working_temp,
                              air_temperature, sound_speed, echo_timeout_us>>
          ELSE /\ pc' = "idle"
               /\ result' = [op |-> "__init__", arg |-> air_temp, err |-> NoError]
               /\ max_working_temp' = MaxWorkingTemp
               /\ min_working_temp' = MinWorkingTemp
               /\ air_temperature' = air_temp
               /\ sound_speed' = get_sound_speed(air_temp)
               /\ echo_timeout_us' = timeout
    /\ UNCHANGED <<method, pulse_time, echo_wait, queries, pulses>>

\* A constructor that raises leaves no instance behind: the attributes it had
\* already set go with the discarded object, so they stay unset here.
HCSR04(timeout, air_temp) ==
    /\ pc = "new"
    /\ LET checked == check_air_temp(MinWorkingTemp, MaxWorkingTemp, air_temp)
       IN  IF checked.raised
              THEN /\ pc' = "dead"
                   /\ result' = [op |-> "__init__", arg |-> air_temp,
                                 err |-> TemperatureOutOfRange]
                   /\ io' = <<>>
                   /\ UNCHANGED <<max_working_temp, min_working_temp,
                                  air_temperature, sound_speed, echo_timeout_us,
                                  trigger, echo>>
              ELSE /\ pc' = "idle"
                   /\ result' = [op |-> "__init__", arg |-> air_temp,
                                 err |-> NoError]
                   /\ max_working_temp' = MaxWorkingTemp
                   /\ min_working_temp' = MinWorkingTemp
                   /\ air_temperature' = checked.value
                   /\ sound_speed' = get_sound_speed(checked.value)
                   /\ echo_timeout_us' = timeout
                   /\ trigger' = [mode |-> "OUT", value |-> 0]
                   /\ echo' = [mode |-> "IN"]
                   /\ io' = <<PinCall("trigger", "OUT"), ValueCall(0),
                              PinCall("echo", "IN")>>
    /\ UNCHANGED <<method, pulse_time, echo_wait, queries, pulses>>

---------------------------------------------------------------------------
(* HCSR04.update_air_temp *)

\* update_air_temp without the range test
update_air_temp_unchecked(temperature) ==
    /\ pc = "idle"
    /\ air_temperature' = temperature
    /\ result' = [op |-> "update_air_temp", arg |-> temperature, err |-> NoError]
    /\ io' = <<>>
    /\ UNCHANGED <<pc, max_working_temp, min_working_temp, sound_speed,
                   echo_timeout_us, trigger, echo, method, pulse_time,
                   echo_wait, queries, pulses>>

\* update_air_temp storing the temperature before it tests it
update_air_temp_store_first(temperature) ==
    /\ pc = "idle"
    /\ air_temperature' = temperature
    /\ result' = [op |-> "update_air_temp", arg |-> temperature,
                  err |-> IF min_working_temp > temperature
                             \/ max_working_temp < temperature
                          THEN TemperatureOutOfRange ELSE NoError]
    /\ io' = <<>>
    /\ UNCHANGED <<pc, max_working_temp, min_working_temp, sound_speed,
                   echo_timeout_us, trigger, echo, method, pulse_time,
                   echo_wait, queries, pulses>>

\* The method assigns air_temperature only; sound_speed is not touched.
update_air_temp(temperature) ==
    /\ pc = "idle"
    /\ IF min_working_temp > temperature \/ max_working_temp < temperature
          THEN /\ result' = [op |-> "update_air_temp", arg |-> temperature,
                             err |-> TemperatureOutOfRange]
               /\ UNCHANGED air_temperature
          ELSE /\ air_temperature' = temperature
               /\ result' = [op |-> "update_air_temp", arg |-> temperature,
                             err |-> NoError]
    /\ io' = <<>>
    /\ UNCHANGED <<pc, max_working_temp, min_working_temp, sound_speed,
                   echo_timeout_us, trigger, echo, method, pulse_time,
                   echo_wait, queries, pulses>>

---------------------------------------------------------------------------
(* HCSR04.distance_mm / distance_cm / distance_in, and _send_pulse_and_wait *)

\* the call of a distance method: control enters _send_pulse_and_wait
distance(m) ==
    /\ pc = "idle"
    /\ queries < MaxQueries
    /\ pc' = "line69"
    /\ method' = m
    /\ pulse_time' = Unset
    /\ echo_wait' = [kind |-> "none"]
    /\ result' = [op |-> Unset, err |-> NoError]
    /\ io' = <<>>
    /\ queries' = queries + 1
    /\ UNCHANGED <<max_working_temp, min_working_temp, air_temperature,
                   sound_speed, echo_timeout_us, trigger, echo, pulses>>

\* self.trigger.value(level) at `here`, control moving on to `there`
write_trigger(here, level, there) ==
    /\ pc = here
    /\ trigger' = [trigger EXCEPT !.value = level]
    /\ io' = Append(io, ValueCall(level))
    /\ pc' = there
    /\ UNCHANGED <<max_working_temp, min_working_temp, air_temperature,
                   sound_speed, echo_timeout_us, echo, method, pulse_time,
                   echo_wait, result, queries, pulses>>

\* sleep_us(us) at `here`, control moving on to `there`
sleep_us(here, us, there) ==
    /\ pc = here
    /\ io' = Append(io, SleepCall(us))
    /\ pc' = there
    /\ UNCHANGED <<max_working_temp, min_working_temp, air_temperature,
                   sound_speed, echo_timeout_us, trigger, echo, method,
                   pulse_time, echo_wait, result, queries, pulses>>

\* the first write with the stabilisation wait left out
stabilize_no_wait == write_trigger("line69", 0, "line71")
stabilize == write_trigger("line69", 0, "line70")

stabilize_wait == sleep_us("line70", StabilizeUs, "line71")

pulse_start == write_trigger("line71", 1, "line74")

pulse_wait == sleep_us("line74", PulseUs, "line75")

\* the pulse never ended: the trigger is not driven low again
pulse_not_ended ==
    /\ pc = "line75"
    /\ pc' = "line78"
    /\ UNCHANGED <<max_working_temp, min_working_temp, air_temperature,
                   sound_speed, echo_timeout_us, trigger, echo, method,
                   pulse_time, echo_wait, result, io, queries, pulses>>
pulse_end == write_trigger("line75", 0, "line78")

\* time_pulse_us returns a pulse width or a timeout sentinel
time_pulse_us_returns(us) ==
    /\ pc = "line78"
    /\ echo_wait' = [kind |-> "returned", us |-> us]
    /\ pulse_time' = us
    /\ io' = Append(io, TimePulseCall(1, echo_timeout_us))
    /\ pulses' = pulses + 1
    /\ pc' = "line79"
    /\ UNCHANGED <<max_working_temp, min_working_temp, air_temperature,
                   sound_speed, echo_timeout_us, trigger, echo, method,
                   result, queries>>

\* time_pulse_us raises OSError(ETIMEDOUT); the handler re-raises it and the
\* distance method lets it through
time_pulse_us_raises ==
    /\ pc = "line78"
    /\ echo_wait' = [kind |-> "raised"]
    /\ io' = Append(io, TimePulseCall(1, echo_timeout_us))
    /\ pulses' = pulses + 1
    /\ result' = [op |-> method, err |-> ETIMEDOUT]
    /\ pc' = "idle"
    /\ UNCHANGED <<max_working_temp, min_working_temp, air_temperature,
                   sound_speed, echo_timeout_us, trigger, echo, method,
                   pulse_time, queries>>

\* the end of the query without the test for a negative pulse_time
finish_unchecked ==
    /\ pc = "line79"
    /\ result' = [op |-> method, err |-> NoError,
                  value |-> convert(method, sound_speed, pulse_time)]
    /\ pc' = "idle"
    /\ UNCHANGED <<max_working_temp, min_working_temp, air_temperature,
                   sound_speed, echo_timeout_us, trigger, echo, method,
                   pulse_time, echo_wait, io, queries, pulses>>

\* the end of the query with a failed measurement tried again
finish_retrying ==
    /\ pc = "line79"
    /\ IF pulse_time < 0
          THEN /\ pc' = "line69"
               /\ UNCHANGED result
          ELSE /\ result' = [op |-> method, err |-> NoError,
                             value |-> convert(method, sound_speed, pulse_time)]
               /\ pc' = "idle"
    /\ UNCHANGED <<max_working_temp, min_working_temp, air_temperature,
                   sound_speed, echo_timeout_us, trigger, echo, method,
                   pulse_time, echo_wait, io, queries, pulses>>

\* the test of pulse_time, the return to the distance method and its conversion
finish ==
    /\ pc = "line79"
    /\ IF pulse_time < 0
          THEN result' = [op |-> method, err |-> OutOfRange]
          ELSE result' = [op |-> method, err |-> NoError,
                          value |-> convert(method, sound_speed, pulse_time)]
    /\ pc' = "idle"
    /\ UNCHANGED <<max_working_temp, min_working_temp, air_temperature,
                   sound_speed, echo_timeout_us, trigger, echo, method,
                   pulse_time, echo_wait, io, queries, pulses>>

---------------------------------------------------------------------------
(* Specification *)

Next ==
    \/ \E t \in InputTemps : HCSR04(DefaultEchoTimeout, t)
    \/ \E t \in InputTemps : update_air_temp(t)
    \/ \E m \in Methods : distance(m)
    \/ stabilize
    \/ stabilize_wait
    \/ pulse_start
    \/ pulse_wait
    \/ pulse_end
    \/ \E us \in PulseTimes \cup TimeoutSentinels : time_pulse_us_returns(us)
    \/ time_pulse_us_raises
    \/ finish

Spec == Init /\ [][Next]_vars

---------------------------------------------------------------------------
(* Properties *)

Constructed == pc \notin {"new", "dead"}
Idle == pc = "idle"
QueryDone == Idle /\ result.op \in Methods
TimedOut ==
    \/ echo_wait.kind = "raised"
    \/ echo_wait.kind = "returned" /\ echo_wait.us \in {-2, -1}

\* C1: in every state of a constructed sensor, sound_speed is the speed of
\* sound at the current air_temperature.
C1_SpeedFollowsTemperature ==
    Constructed => sound_speed = get_sound_speed(air_temperature)

\* C2: in every state of a constructed sensor the working limits are -15 and
\* 70 and air_temperature lies between them, limits included.
C2_TemperatureInRange ==
    Constructed =>
        /\ min_working_temp = -15
        /\ max_working_temp = 70
        /\ min_working_temp <= air_temperature
        /\ air_temperature <= max_working_temp

\* an update was just rejected, after the temperature had been moved by an
\* earlier accepted one
C2_Witness ==
    /\ Idle
    /\ result.op = "update_air_temp"
    /\ result.err = TemperatureOutOfRange
    /\ air_temperature = 70

\* C3: update_air_temp(t) with t < -15 or t > 70 raises 'temperature out of
\* range' and changes neither air_temperature nor sound_speed.
C3_RejectedUpdateChangesNothing ==
    [][\A t \in InputTemps :
          (t < -15 \/ t > 70) /\ update_air_temp(t) =>
              /\ result'.err = TemperatureOutOfRange
              /\ air_temperature' = air_temperature
              /\ sound_speed' = sound_speed]_vars

\* a temperature above the limit was just rejected
C3_Witness ==
    /\ Idle
    /\ result.op = "update_air_temp"
    /\ result.err = TemperatureOutOfRange
    /\ result.arg > 70

\* the platform calls of one measurement, in order
C4_Calls ==
    << <<"trigger.value", 0>>, <<"sleep_us", 5>>, <<"trigger.value", 1>>,
       <<"sleep_us", 10>>, <<"trigger.value", 0>>,
       <<"time_pulse_us", "echo", 1, echo_timeout_us>> >>

\* how many of them have been made when control is at a place
C4_Made ==
    CASE pc = "line69" -> 0
      [] pc = "line70" -> 1
      [] pc = "line71" -> 2
      [] pc = "line74" -> 3
      [] pc = "line75" -> 4
      [] pc = "line78" -> 5
      [] OTHER -> 6

\* C4: the platform calls of a measurement are, in this order, trigger low,
\* sleep 5, trigger high, sleep 10, trigger low, time_pulse_us; the trigger is
\* high only from the write before the 10 us wait to the write after it.
C4_PulseSequence ==
    /\ trigger.value = 1 => pc \in {"line74", "line75"}
    /\ (Constructed /\ ~Idle) \/ QueryDone => io = SubSeq(C4_Calls, 1, C4_Made)

\* the echo has been timed
C4_Witness == pc = "line79" /\ Len(io) = 6

\* C5: whenever no measurement is in progress the trigger is an output driven
\* low.
C5_TriggerLowWhenIdle ==
    Idle => trigger.mode = "OUT" /\ trigger.value = 0

\* a query has just failed
C5_Witness == QueryDone /\ result.err # NoError /\ trigger.value = 0

\* C6: n distance queries make n echo measurements: one per query, made by the
\* time the query ends, whether it returns or raises, with one trigger pulse.
C6_OneCyclePerQuery ==
    /\ Idle => pulses = queries
    /\ Constructed /\ ~Idle => pulses = IF pc = "line79" THEN queries
                                                       ELSE queries - 1
    /\ QueryDone =>
          /\ Cardinality({i \in DOMAIN io : io[i][1] = "time_pulse_us"}) = 1
          /\ Cardinality({i \in DOMAIN io : io[i] = <<"trigger.value", 1>>}) = 1

\* the second query has failed
C6_Witness == QueryDone /\ queries = 2 /\ result.err # NoError

\* C7: a distance query returns a value exactly when time_pulse_us returned a
\* duration >= 0; after a timeout or a negative duration it raises and there
\* is no value.
C7_ValueOnlyFromMeasurement ==
    QueryDone =>
        /\ result.err = NoError <=>
              echo_wait.kind = "returned" /\ echo_wait.us >= 0
        /\ "value" \in DOMAIN result <=> result.err = NoError

\* a query has raised on a negative duration
C7_Witness ==
    /\ QueryDone
    /\ echo_wait.kind = "returned"
    /\ echo_wait.us < 0
    /\ result.err # NoError

\* C8: a platform timeout, raised or returned as a sentinel, never surfaces as
\* the failure a negative duration raises.
C8_TimeoutIsNotNegativeDuration ==
    QueryDone /\ TimedOut =>
        result.err # NoError /\ result.err # "Exception('out of range')"

\* C9: a constructor given a temperature outside [-15, 70] raises before any
\* platform call and leaves no instance; given one inside, it sets the trigger
\* up as an output, writes it low once and sets the echo up as an input.
C9_ConstructionIO ==
    /\ result.op = "__init__" =>
          IF result.arg < -15 \/ result.arg > 70
             THEN /\ pc = "dead"
                  /\ result.err = TemperatureOutOfRange
                  /\ io = <<>>
                  /\ trigger.mode = Unset
                  /\ echo.mode = Unset
             ELSE /\ Idle
                  /\ result.err = NoError
                  /\ io = << <<"Pin", "trigger", "OUT">>, <<"trigger.value", 0>>,
                             <<"Pin", "echo", "IN">> >>
                  /\ trigger = [mode |-> "OUT", value |-> 0]
                  /\ echo.mode = "IN"
    /\ pc = "dead" => result.op = "__init__"

\* construction was refused
C9_Witness == pc = "dead" /\ result.arg < -15

\* C10: distance_mm returns floor(sound_speed * p / 2): a natural number, not
\* below the result for any shorter pulse, and at most 10 times distance_cm
\* for the same pulse and sound_speed.
C10_MillimetresFloor ==
    QueryDone /\ result.op = "distance_mm" /\ result.err = NoError =>
        LET mm == result.value
            x == sound_speed * pulse_time
            cm == cm_of(sound_speed, pulse_time)
        IN  /\ mm \in Nat
            /\ mm * 2 * FloatScale <= x
            /\ x < (mm + 1) * 2 * FloatScale
            /\ \A q \in 0 .. pulse_time : mm_of(sound_speed, q) <= mm
            /\ mm * cm.den <= 10 * cm.num

\* a distance that was truncated
C10_Witness ==
    /\ QueryDone
    /\ result.op = "distance_mm"
    /\ result.err = NoError
    /\ result.value >= 1
    /\ (sound_speed * pulse_time) % (2 * FloatScale) >= FloatScale

====
